---- MODULE Spec2Model ----
(***************************************************************************)
(* Subscription / payment lifecycle of the Dorwel backend: the             *)
(* Subscription, Payment, User and Notification collections, the           *)
(* subscription controller (subscribe, cancel), the Razorpay webhook       *)
(* service and the usage counters of a Subscription.                       *)
(*                                                                         *)
(* Dates are whole days.  A document that mongoose refuses to save (an     *)
(* enum validator of the schema fails) is not written and the call throws. *)
(***************************************************************************)
EXTENDS Integers, Sequences, FiniteSets, TLC

\* ------------------------------------------------------------------ bounds
MaxSubs  == 2      \* subscriptions the gateway ever creates
MaxPays  == 1      \* gateway payment ids
MaxReqs  == 4      \* requests handled in one behaviour of Spec
MaxCallers    == 2 \* concurrent callers of the usage operations
MaxCalls      == 3 \* usage calls started in one behaviour
MaxAmount     == 2 \* largest amount of one usage call
MaxDeliveries == 2 \* concurrent deliveries of one webhook
MaxLifecycle  == 3 \* requests handled in one behaviour of SpecLifecycle
MaxPaymentReqs == 4 \* requests handled in one behaviour of SpecPayments
MaxFaulty == 2 \* deliveries in one behaviour of SpecFaults

Users  == {"u1", "u2"}
SubIds == 1..MaxSubs
PayIds == 1..MaxPays

\* ------------------------------------------------------- schema constants
NoDate == -1       \* a Date path that was never set
NoId   == 0        \* a reference that is absent

StatusEnum        == {"active", "inactive", "trialing", "past_due", "cancelled", "paused"}
HistoryActionEnum == {"created", "activated", "renewed", "cancelled", "paused",
                      "resumed", "upgraded", "downgraded"}
UserStatusEnum    == {"trial", "active", "expired", "cancelled", "none"}
\* variant: an enum that also admits the billing entities
RelatedEntityEnum_withBilling ==
  {"project", "estimate", "moodboard", "lead", "client", "milestone",
   "subscription", "payment"}
RelatedEntityEnum == {"project", "estimate", "moodboard", "lead", "client", "milestone"}
PaymentStatusEnum == {"pending", "captured", "failed", "refunded", "partially_refunded"}
ResourceTypes     == {"teams", "users", "projects", "clients", "leads", "storage"}

Events == {"payment.captured", "payment.failed", "subscription.activated",
           "subscription.charged", "subscription.completed",
           "subscription.cancelled", "subscription.paused",
           "subscription.resumed", "subscription.halted",
           "subscription.pending", "subscription.updated"}

Unlimited == -1

\* amount of every gateway payment, in rupees (payment.amount / 100)
ChargeAmount == 2
\* gateway order ids
OrderIds == {1, 2}

\* days of one billing cycle, as createSubscription computes endDate
CycleDays(billingCycle) == IF billingCycle = "yearly" THEN 365 ELSE 30

\* The plan templates a user can subscribe to.
Plans ==
  [ basic |-> [billingCycle |-> "monthly", trialEnabled |-> TRUE,  trialDays |-> 14,
               price |-> 10, razorpayPlanId |-> "plan_basic", features |-> [aiEstimates |-> FALSE],
               max |-> [r \in ResourceTypes |-> 2], unlimited |-> [r \in ResourceTypes |-> FALSE]],
    pro   |-> [billingCycle |-> "yearly",  trialEnabled |-> FALSE, trialDays |-> 0,
               price |-> 100, razorpayPlanId |-> "plan_pro", features |-> [aiEstimates |-> TRUE],
               max |-> [r \in ResourceTypes |-> 3], unlimited |-> [r \in ResourceTypes |-> r = "storage"]] ]
PlanIds == DOMAIN Plans
\* the _id of a plan created later
NewPlanId == "custom"

\* ---------------------------------------------------------------- state
VARIABLES
  now,            \* the clock, in days
  plans,          \* SubscriptionPlan collection: _id -> document
  subs,           \* Subscription collection: _id -> document
  users,          \* User collection: the subscription fields of each user
  payments,       \* Payment collection: a sequence of rows
  notifications,  \* Notification collection: a sequence of rows
  req,            \* the request handled last, with its outcome
  nreq,           \* number of requests handled
  callers,        \* callers of the reserve protocol (SpecReserve)
  deliveries      \* in-flight subscription.charged deliveries (SpecCharged)

vars == <<now, plans, subs, users, payments, notifications, req, nreq, callers, deliveries>>
db   == <<subs, users, payments, notifications>>

NoReq == [op |-> "none", user |-> "u1", sub |-> NoId, event |-> "none", pay |-> NoId,
          end |-> NoDate, card |-> FALSE, sigValid |-> TRUE, gw |-> "none",
          plan |-> "none", body |-> [price |-> 0, quota |-> 0], amount |-> 0,
          fault |-> "none", faulted |-> FALSE, result |-> "none"]

\* ------------------------------------------------------------ persistence
\* mongoose validation of a Subscription document before save
ValidSubscription(doc) ==
  /\ doc.status \in StatusEnum
  /\ \A i \in 1..Len(doc.history) : doc.history[i] \in HistoryActionEnum

\* Notification.createNotification: this.create(data), validated by the schema
Notification_createNotification(notifs, n) ==
  IF n.entityType \in RelatedEntityEnum
    THEN [ok |-> TRUE,  notifications |-> Append(notifs, n)]
    ELSE [ok |-> FALSE, notifications |-> notifs]

\* Subscription.getUserActiveSubscription
getUserActiveSubscription(S, u) ==
  {s \in DOMAIN S : S[s].user = u /\ S[s].status \in {"active", "trialing"}}

\* variant: the status of the data is dropped and the schema default applies
Subscription_createSubscription_defaultStatus(S, id, data) ==
  IF getUserActiveSubscription(S, data.user) # {}
    THEN [ok |-> FALSE, err |-> "BadRequest", subs |-> S]
    ELSE LET doc == [data EXCEPT !.history = <<"created">>, !.status = "trialing"]
         IN IF ValidSubscription(doc)
              THEN [ok |-> TRUE, err |-> "none", subs |-> (id :> doc) @@ S]
              ELSE [ok |-> FALSE, err |-> "ValidationError", subs |-> S]
\* Subscription.createSubscription
Subscription_createSubscription(S, id, data) ==
  IF getUserActiveSubscription(S, data.user) # {}
    THEN [ok |-> FALSE, err |-> "BadRequest", subs |-> S]
    ELSE LET doc == [data EXCEPT !.history = <<"created">>]
         IN IF ValidSubscription(doc)
              THEN [ok |-> TRUE, err |-> "none", subs |-> (id :> doc) @@ S]
              ELSE [ok |-> FALSE, err |-> "ValidationError", subs |-> S]

\* Subscription.updateSubscriptionStatus
Subscription_updateSubscriptionStatus(S, id, status, t) ==
  IF id \notin DOMAIN S
    THEN [ok |-> FALSE, err |-> "NotFound", subs |-> S]
    ELSE LET doc == [S[id] EXCEPT
                      !.status = status,
                      !.history = Append(@, IF status = "cancelled" THEN "cancelled" ELSE "activated"),
                      !.cancelledAt = IF status = "cancelled" THEN t ELSE @]
         IN IF ValidSubscription(doc)
              THEN [ok |-> TRUE, err |-> "none", subs |-> [S EXCEPT ![id] = doc]]
              ELSE [ok |-> FALSE, err |-> "ValidationError", subs |-> S]

\* variant: cancelling also clears the usage counters
Subscription_cancelSubscription_resetsUsage(S, id, reason, by, t) ==
  IF id \notin DOMAIN S
    THEN [ok |-> FALSE, err |-> "NotFound", subs |-> S]
    ELSE LET doc == [S[id] EXCEPT
                      !.status = "cancelled",
                      !.cancelledAt = t,
                      !.cancellation = [reason |-> reason, cancelledBy |-> by],
                      !.usage = [r \in ResourceTypes |-> [@[r] EXCEPT !.current = 0]],
                      !.history = Append(@, "cancelled")]
         IN [ok |-> TRUE, err |-> "none", subs |-> [S EXCEPT ![id] = doc]]
\* Subscription.cancelSubscription
Subscription_cancelSubscription(S, id, reason, by, t) ==
  IF id \notin DOMAIN S
    THEN [ok |-> FALSE, err |-> "NotFound", subs |-> S]
    ELSE LET doc == [S[id] EXCEPT
                      !.status = "cancelled",
                      !.cancelledAt = t,
                      !.cancellation = [reason |-> reason, cancelledBy |-> by],
                      !.history = Append(@, "cancelled")]
         IN [ok |-> TRUE, err |-> "none", subs |-> [S EXCEPT ![id] = doc]]

\* variant: the save writes a log that holds the latest entry only
pushHistoryAndSave_latestOnly(S, id, action) ==
  IF action \in HistoryActionEnum
    THEN [ok |-> TRUE,  err |-> "none", subs |-> [S EXCEPT ![id].history = <<action>>]]
    ELSE [ok |-> FALSE, err |-> "ValidationError", subs |-> S]
\* subscriptionRecord.history.push({action}); subscriptionRecord.save() on the
\* document a handler read before it called the model: the document is
\* validated with the pushed entry, and only the push is written.
pushHistoryAndSave(S, id, action) ==
  IF action \in HistoryActionEnum
    THEN [ok |-> TRUE,  err |-> "none", subs |-> [S EXCEPT ![id].history = Append(@, action)]]
    ELSE [ok |-> FALSE, err |-> "ValidationError", subs |-> S]

\* User.updateSubscriptionStatus
User_updateSubscriptionStatus(U, u, status, expiryDate) ==
  IF status \notin UserStatusEnum
    THEN [ok |-> FALSE, err |-> "ValidationError", users |-> U]
    ELSE [ok |-> TRUE, err |-> "none",
          users |-> [U EXCEPT ![u].subscriptionStatus = status,
                              ![u].subscriptionExpiry =
                                 IF expiryDate # NoDate THEN expiryDate ELSE @]]

\* Payment.findOne({ razorpayPaymentId })
findPayment(P, pid) == {i \in 1..Len(P) : P[i].razorpayPaymentId = pid}

\* Payment.createPayment: this.create(data) under the unique index on
\* razorpayPaymentId
Payment_createPayment(P, row) ==
  IF findPayment(P, row.razorpayPaymentId) # {}
    THEN [ok |-> FALSE, err |-> "DuplicateKey", payments |-> P]
    ELSE [ok |-> TRUE,  err |-> "none", payments |-> Append(P, row)]

\* ----------------------------------------------------- webhook handlers
\* The four collections as one value, so that a handler is a function of it.
DB(S, U, P, N) == [subs |-> S, users |-> U, payments |-> P, notifications |-> N]
Done(D, result) == [db |-> D, result |-> result, faulted |-> FALSE]

\* The awaited persistence calls of the handlers, by what they do.  A handler
\* is run with one of them failing (the database is unreachable for that
\* call) or with none.
FaultSites == {"none", "findRecord", "updateStatus", "updateUser", "saveRecord",
               "findPayment", "createPayment", "updatePayment", "addNote", "notify"}

\* variant: the catch block logs the error and returns
Thrown_swallowed(D) == [db |-> D, result |-> "ok", faulted |-> TRUE]
\* An awaited call rejects with the driver's error: no handler catches it,
\* and the catch block of handleWebhook logs it and throws it again.  What
\* was saved before the call stays saved.
Thrown(D) == [db |-> D, result |-> "PersistenceError", faulted |-> TRUE]

\* The notification documents the handlers build.  `payment` is the gateway
\* payment whose amount the message quotes (NoId: the message quotes none).
SubscriptionNotification(D, id) ==
  [recipient |-> D.subs[id].user, entityType |-> "subscription", entityId |-> id,
   payment |-> NoId]
ChargedNotification(D, id, pid) ==
  [SubscriptionNotification(D, id) EXCEPT !.payment = pid]
PaymentNotification(D, i) ==
  [recipient |-> D.payments[i].user, entityType |-> "payment", entityId |-> i,
   payment |-> D.payments[i].razorpayPaymentId]

\* the ValidationError Notification.create throws, as a handler's outcome
NotificationError == "NotificationValidationError"

\* The shape shared by the status handlers: find the record by
\* razorpaySubscriptionId, Subscription.updateSubscriptionStatus, optionally
\* User.updateSubscriptionStatus, push a history entry on the record read
\* first and save it, optionally create a notification.  The first call that
\* throws ends the handler; what was saved before it stays saved.
statusEvent(D, id, t, status, userStatus, expiry, action, notify, fault) ==
  IF fault = "findRecord" THEN Thrown(D) ELSE
  IF id \notin DOMAIN D.subs THEN Done(D, "ok") ELSE
  IF fault = "updateStatus" THEN Thrown(D) ELSE
  LET r1 == Subscription_updateSubscriptionStatus(D.subs, id, status, t) IN
  IF ~r1.ok THEN Done(D, r1.err) ELSE
  LET D1 == [D EXCEPT !.subs = r1.subs] IN
  IF userStatus # "skip" /\ fault = "updateUser" THEN Thrown(D1) ELSE
  LET r2 == IF userStatus = "skip"
              THEN [ok |-> TRUE, err |-> "none", users |-> D1.users]
              ELSE User_updateSubscriptionStatus(D1.users, D.subs[id].user, userStatus, expiry) IN
  IF ~r2.ok THEN Done(D1, r2.err) ELSE
  LET D2 == [D1 EXCEPT !.users = r2.users] IN
  IF fault = "saveRecord" THEN Thrown(D2) ELSE
  LET r3 == pushHistoryAndSave(D2.subs, id, action) IN
  IF ~r3.ok THEN Done(D2, r3.err) ELSE
  LET D3 == [D2 EXCEPT !.subs = r3.subs] IN
  IF notify /\ fault = "notify" THEN Thrown(D3) ELSE
  LET r4 == IF notify
              THEN Notification_createNotification(D3.notifications, SubscriptionNotification(D, id))
              ELSE [ok |-> TRUE, notifications |-> D3.notifications] IN
  IF ~r4.ok THEN Done(D3, NotificationError)
  ELSE Done([D3 EXCEPT !.notifications = r4.notifications], "ok")

handleSubscriptionActivated(D, id, end, t, fault) ==
  statusEvent(D, id, t, "active", "active", end, "activated", TRUE, fault)
handleSubscriptionCompleted(D, id, t, fault) ==
  statusEvent(D, id, t, "completed", "expired", NoDate, "completed", TRUE, fault)
handleSubscriptionCancelled(D, id, t, fault) ==
  statusEvent(D, id, t, "cancelled", "cancelled", NoDate, "cancelled", TRUE, fault)
handleSubscriptionPaused(D, id, t, fault) ==
  statusEvent(D, id, t, "paused", "skip", NoDate, "paused", TRUE, fault)
handleSubscriptionResumed(D, id, end, t, fault) ==
  statusEvent(D, id, t, "active", "active", end, "resumed", TRUE, fault)
handleSubscriptionHalted(D, id, t, fault) ==
  statusEvent(D, id, t, "past_due", "skip", NoDate, "halted", TRUE, fault)
handleSubscriptionPending(D, id, t, fault) ==
  statusEvent(D, id, t, "trialing", "skip", NoDate, "pending", FALSE, fault)

\* The steps of handleSubscriptionCharged, one per awaited call.
\* variant: only nextBillingDate follows the payload
chargedSaveRecord_billingDateOnly(S, id, end) ==
  LET doc == [S[id] EXCEPT !.nextBillingDate = end, !.history = Append(@, "renewed")]
  IN IF ValidSubscription(doc)
       THEN [ok |-> TRUE, err |-> "none", subs |-> [S EXCEPT ![id] = doc]]
       ELSE [ok |-> FALSE, err |-> "ValidationError", subs |-> S]
\* subscriptionRecord.nextBillingDate = endDate = current_end; push 'renewed'; save
chargedSaveRecord(S, id, end) ==
  LET doc == [S[id] EXCEPT !.nextBillingDate = end, !.endDate = end,
                           !.history = Append(@, "renewed")]
  IN IF ValidSubscription(doc)
       THEN [ok |-> TRUE, err |-> "none", subs |-> [S EXCEPT ![id] = doc]]
       ELSE [ok |-> FALSE, err |-> "ValidationError", subs |-> S]

chargedPaymentRow(S, id, pid) ==
  [razorpayPaymentId |-> pid, user |-> S[id].user, subscription |-> id,
   status |-> "captured", amount |-> ChargeAmount, refund |-> 0]

handleSubscriptionCharged(D, id, pid, end, fault) ==
  IF fault = "findRecord" THEN Thrown(D) ELSE
  IF id \notin DOMAIN D.subs THEN Done(D, "ok") ELSE
  IF fault = "saveRecord" THEN Thrown(D) ELSE
  LET r1 == chargedSaveRecord(D.subs, id, end) IN
  IF ~r1.ok THEN Done(D, r1.err) ELSE
  LET D1 == [D EXCEPT !.subs = r1.subs] IN
  IF fault = "updateUser" THEN Thrown(D1) ELSE
  LET r2 == User_updateSubscriptionStatus(D1.users, D.subs[id].user, "active", end) IN
  IF ~r2.ok THEN Done(D1, r2.err) ELSE
  LET D2 == [D1 EXCEPT !.users = r2.users] IN
  IF fault = "findPayment" THEN Thrown(D2) ELSE
  LET existingPayment == findPayment(D2.payments, pid) IN
  IF existingPayment = {} /\ fault = "createPayment" THEN Thrown(D2) ELSE
  LET r3 == IF existingPayment = {}
              THEN Payment_createPayment(D2.payments, chargedPaymentRow(D.subs, id, pid))
              ELSE [ok |-> TRUE, err |-> "none", payments |-> D2.payments] IN
  IF ~r3.ok THEN Done(D2, r3.err) ELSE
  LET D3 == [D2 EXCEPT !.payments = r3.payments] IN
  IF fault = "notify" THEN Thrown(D3) ELSE
  LET r4 == Notification_createNotification(D3.notifications,
                                            ChargedNotification(D, id, pid)) IN
  IF ~r4.ok THEN Done(D3, NotificationError)
  ELSE Done([D3 EXCEPT !.notifications = r4.notifications], "ok")

\* handleSubscriptionUpdated: dates and an 'updated' history entry in one
\* save, then User.updateSubscriptionStatus
handleSubscriptionUpdated(D, id, end, fault) ==
  IF fault = "findRecord" THEN Thrown(D) ELSE
  IF id \notin DOMAIN D.subs THEN Done(D, "ok") ELSE
  IF fault = "saveRecord" THEN Thrown(D) ELSE
  LET doc == [D.subs[id] EXCEPT !.nextBillingDate = end, !.endDate = end,
                                !.history = Append(@, "updated")] IN
  IF ~ValidSubscription(doc) THEN Done(D, "ValidationError") ELSE
  LET D1 == [D EXCEPT !.subs[id] = doc] IN
  IF fault = "updateUser" THEN Thrown(D1) ELSE
  LET r2 == User_updateSubscriptionStatus(D1.users, D.subs[id].user, "active", end) IN
  IF ~r2.ok THEN Done(D1, r2.err)
  ELSE Done([D1 EXCEPT !.users = r2.users], "ok")

\* Payment.updatePaymentStatus: status and the additional data are assigned
\* and the document is saved.  paymentMethod.card is a String path of the
\* schema (its declaration has a bare `type` key), so a card object among the
\* additional data fails to cast and save() rejects the document.
Payment_updatePaymentStatus(P, i, status, card) ==
  IF card
    THEN [ok |-> FALSE, err |-> "ValidationError", payments |-> P]
    ELSE [ok |-> TRUE,  err |-> "none", payments |-> [P EXCEPT ![i].status = status]]

\* Payment.findOne, Payment.updatePaymentStatus, paymentRecord.addNote and
\* the notification, as handlePaymentCaptured / handlePaymentFailed do
paymentEvent(D, pid, status, card, fault) ==
  IF fault = "findPayment" THEN Thrown(D) ELSE
  LET found == findPayment(D.payments, pid) IN
  IF found = {} THEN Done(D, "ok") ELSE
  IF fault = "updatePayment" THEN Thrown(D) ELSE
  LET i  == CHOOSE j \in found : TRUE
      r1 == Payment_updatePaymentStatus(D.payments, i, status, card) IN
  IF ~r1.ok THEN Done(D, r1.err) ELSE
  LET D1 == [D EXCEPT !.payments = r1.payments] IN
  IF fault \in {"addNote", "notify"} THEN Thrown(D1) ELSE
  LET r2 == Notification_createNotification(D1.notifications, PaymentNotification(D, i)) IN
  IF ~r2.ok THEN Done(D1, NotificationError)
  ELSE Done([D1 EXCEPT !.notifications = r2.notifications], "ok")

\* card: the payload's payment carries a card object
handlePaymentCaptured(D, pid, card, fault) == paymentEvent(D, pid, "captured", card, fault)
\* variant: a failed payment that is not recorded yet is inserted
handlePaymentFailed_upsert(D, pid, fault) ==
  IF findPayment(D.payments, pid) = {}
    THEN Done([D EXCEPT !.payments = Append(@, [razorpayPaymentId |-> pid, user |-> "u1",
                                                 subscription |-> NoId, status |-> "failed",
                                                 amount |-> ChargeAmount, refund |-> 0])],
              "ok")
    ELSE paymentEvent(D, pid, "failed", FALSE, fault)
handlePaymentFailed(D, pid, fault) == paymentEvent(D, pid, "failed", FALSE, fault)

\* razorpayService.verifyWebhookSignature: the hex HMAC of the body under the
\* webhook secret equals the signature header.  A signature is modelled by
\* the body it was computed over ("forged" is the HMAC of no body at all).
verifyWebhookSignature(body, signature) == signature = body

\* variant: the default branch of the switch throws
handleWebhook_rejectsUnknown(D, event, id, pid, end, card, t, fault) ==
  CASE event = "payment.captured"       -> handlePaymentCaptured(D, pid, card, fault)
    [] event = "payment.failed"         -> handlePaymentFailed(D, pid, fault)
    [] event = "subscription.activated" -> handleSubscriptionActivated(D, id, end, t, fault)
    [] event = "subscription.charged"   -> handleSubscriptionCharged(D, id, pid, end, fault)
    [] event = "subscription.completed" -> handleSubscriptionCompleted(D, id, t, fault)
    [] event = "subscription.cancelled" -> handleSubscriptionCancelled(D, id, t, fault)
    [] event = "subscription.paused"    -> handleSubscriptionPaused(D, id, t, fault)
    [] event = "subscription.resumed"   -> handleSubscriptionResumed(D, id, end, t, fault)
    [] event = "subscription.halted"    -> handleSubscriptionHalted(D, id, t, fault)
    [] event = "subscription.pending"   -> handleSubscriptionPending(D, id, t, fault)
    [] event = "subscription.updated"   -> handleSubscriptionUpdated(D, id, end, fault)
    [] OTHER                            -> Done(D, "BadRequest")

\* RazorpayWebhookService.handleWebhook(event, data): the switch on the event
\* name; an error of the handler is logged and thrown again.  The signature
\* header is not among its arguments.
handleWebhook(D, event, id, pid, end, card, t, fault) ==
  CASE event = "payment.captured"       -> handlePaymentCaptured(D, pid, card, fault)
    [] event = "payment.failed"         -> handlePaymentFailed(D, pid, fault)
    [] event = "subscription.activated" -> handleSubscriptionActivated(D, id, end, t, fault)
    [] event = "subscription.charged"   -> handleSubscriptionCharged(D, id, pid, end, fault)
    [] event = "subscription.completed" -> handleSubscriptionCompleted(D, id, t, fault)
    [] event = "subscription.cancelled" -> handleSubscriptionCancelled(D, id, t, fault)
    [] event = "subscription.paused"    -> handleSubscriptionPaused(D, id, t, fault)
    [] event = "subscription.resumed"   -> handleSubscriptionResumed(D, id, end, t, fault)
    [] event = "subscription.halted"    -> handleSubscriptionHalted(D, id, t, fault)
    [] event = "subscription.pending"   -> handleSubscriptionPending(D, id, t, fault)
    [] event = "subscription.updated"   -> handleSubscriptionUpdated(D, id, end, fault)
    [] OTHER                            -> Done(D, "ok")

\* ------------------------------------------------------------ controller
\* variant: the limit is the plan's max even where the plan says unlimited
subscriptionData_maxOnly(u, planId, plan, t) ==
  [user            |-> u,
   plan            |-> planId,
   billingCycle    |-> plan.billingCycle,
   price           |-> plan.price,
   features        |-> plan.features,
   startDate       |-> t,
   endDate         |-> t + CycleDays(plan.billingCycle),
   nextBillingDate |-> t + CycleDays(plan.billingCycle),
   cancelledAt     |-> NoDate,
   cancellation    |-> [reason |-> "none", cancelledBy |-> "none"],
   status          |-> IF plan.trialEnabled THEN "trialing" ELSE "active",
   usage           |-> [r \in ResourceTypes |-> [current |-> 0, limit |-> plan.max[r]]],
   history         |-> <<>>]
\* The document createSubscription (controller) builds from the plan.
subscriptionData(u, planId, plan, t) ==
  [user            |-> u,
   plan            |-> planId,
   billingCycle    |-> plan.billingCycle,
   price           |-> plan.price,
   features        |-> plan.features,
   startDate       |-> t,
   endDate         |-> t + CycleDays(plan.billingCycle),
   nextBillingDate |-> t + CycleDays(plan.billingCycle),
   cancelledAt     |-> NoDate,
   cancellation    |-> [reason |-> "none", cancelledBy |-> "none"],
   status          |-> IF plan.trialEnabled THEN "trialing" ELSE "active",
   usage           |-> [r \in ResourceTypes |->
                          [current |-> 0,
                           limit   |-> IF plan.unlimited[r] THEN Unlimited ELSE plan.max[r]]],
   history         |-> <<>>]

\* controller createSubscription; gw tells which gateway call fails, if any
createSubscription(D, PL, u, planId, gw, t) ==
  IF planId \notin DOMAIN PL THEN Done(D, "NotFound") ELSE
  IF getUserActiveSubscription(D.subs, u) # {} THEN Done(D, "BadRequest") ELSE
  IF ~D.users[u].razorpayCustomerId /\ gw = "customerFails" THEN Done(D, "GatewayError") ELSE
  LET D1 == [D EXCEPT !.users[u].razorpayCustomerId = TRUE] IN
  IF gw = "subscriptionFails" THEN Done(D1, "GatewayError") ELSE
  LET id == Cardinality(DOMAIN D.subs) + 1
      r2 == Subscription_createSubscription(D1.subs, id, subscriptionData(u, planId, PL[planId], t)) IN
  IF ~r2.ok THEN Done(D1, r2.err) ELSE
  LET D2 == [D1 EXCEPT !.subs = r2.subs]
      r3 == Notification_createNotification(D2.notifications, SubscriptionNotification(D2, id)) IN
  IF ~r3.ok THEN Done(D2, NotificationError)
  ELSE Done([D2 EXCEPT !.notifications = r3.notifications], "ok")

\* controller cancelSubscription
\* variant: the database is updated first, the gateway is called last
cancelSubscription_localFirst(D, u, id, reason, gwOk, t) ==
  IF id \notin DOMAIN D.subs THEN Done(D, "NotFound") ELSE
  IF D.subs[id].user # u THEN Done(D, "Forbidden") ELSE
  LET r1 == Subscription_cancelSubscription(D.subs, id, reason, u, t) IN
  IF ~r1.ok THEN Done(D, r1.err) ELSE
  LET D1 == [D EXCEPT !.subs = r1.subs] IN
  IF ~gwOk THEN Done(D1, "GatewayError") ELSE
  LET r2 == Notification_createNotification(D1.notifications, SubscriptionNotification(D, id)) IN
  IF ~r2.ok THEN Done(D1, NotificationError)
  ELSE Done([D1 EXCEPT !.notifications = r2.notifications], "ok")
cancelSubscription(D, u, id, reason, gwOk, t) ==
  IF id \notin DOMAIN D.subs THEN Done(D, "NotFound") ELSE
  IF D.subs[id].user # u THEN Done(D, "Forbidden") ELSE
  IF ~gwOk THEN Done(D, "GatewayError") ELSE
  LET r1 == Subscription_cancelSubscription(D.subs, id, reason, u, t) IN
  IF ~r1.ok THEN Done(D, r1.err) ELSE
  LET D1 == [D EXCEPT !.subs = r1.subs]
      r2 == Notification_createNotification(D1.notifications, SubscriptionNotification(D, id)) IN
  IF ~r2.ok THEN Done(D1, NotificationError)
  ELSE Done([D1 EXCEPT !.notifications = r2.notifications], "ok")

\* variant: the gateway is called for any user's request
CancelGateway_anyUser(D, u, id, gwOk) ==
  IF id \notin DOMAIN D.subs THEN "none"
  ELSE IF gwOk THEN "ok" ELSE "failed"
\* What became of the gateway's side of a cancel request: "none" when the
\* controller returned before razorpayService.cancelSubscription, else
\* whether that call cancelled the gateway subscription or threw.
CancelGateway(D, u, id, gwOk) ==
  IF id \notin DOMAIN D.subs \/ D.subs[id].user # u THEN "none"
  ELSE IF gwOk THEN "ok" ELSE "failed"

\* ---------------------------------------------------------------- actions
CurrentDB == DB(subs, users, payments, notifications)

Commit(r) ==
  /\ subs' = r.db.subs
  /\ users' = r.db.users
  /\ payments' = r.db.payments
  /\ notifications' = r.db.notifications

\* period ends (current_end) the gateway reports in a payload at time t
PeriodEnds(t) == {t + 30, t + 365}

Init ==
  /\ now = 0
  /\ plans = Plans
  /\ subs = <<>>
  /\ users = [u \in Users |-> [subscriptionStatus |-> "none", subscriptionExpiry |-> NoDate,
                               razorpayCustomerId |-> FALSE]]
  /\ payments = <<>>
  /\ notifications = <<>>
  /\ req = NoReq
  /\ nreq = 0
  /\ callers = <<>>
  /\ deliveries = <<>>

Subscribe ==
  /\ nreq < MaxReqs
  /\ Cardinality(DOMAIN subs) < MaxSubs
  /\ \E u \in Users, planId \in PlanIds \cup {NewPlanId, "missing"},
        gw \in {"ok", "customerFails", "subscriptionFails"} :
       LET r == createSubscription(CurrentDB, plans, u, planId, gw, now) IN
       /\ Commit(r)
       /\ req' = [NoReq EXCEPT !.op = "subscribe", !.user = u, !.result = r.result]
  /\ nreq' = nreq + 1
  /\ UNCHANGED <<now, plans, callers, deliveries>>

Cancel ==
  /\ nreq < MaxReqs
  /\ \E u \in Users, id \in SubIds, gwOk \in BOOLEAN :
       LET r == cancelSubscription(CurrentDB, u, id, "too_expensive", gwOk, now) IN
       /\ Commit(r)
       /\ req' = [NoReq EXCEPT !.op = "cancel", !.user = u, !.sub = id,
                               !.gw = CancelGateway(CurrentDB, u, id, gwOk),
                               !.result = r.result]
  /\ nreq' = nreq + 1
  /\ UNCHANGED <<now, plans, callers, deliveries>>

\* The payloads the gateway can post at time t.  A payload carries the fields
\* its handler reads: payment events a payment id, subscription events a
\* subscription id, and the period end (current_end) where it is read.
Payloads(t) ==
  {[event |-> "payment.captured", sub |-> NoId, pay |-> p, end |-> NoDate, card |-> c] :
      p \in PayIds, c \in BOOLEAN}
  \cup {[event |-> "payment.failed", sub |-> NoId, pay |-> p, end |-> NoDate,
          card |-> FALSE] : p \in PayIds}
  \cup {[event |-> e, sub |-> s, pay |-> NoId, end |-> d, card |-> FALSE] :
      e \in {"subscription.activated", "subscription.resumed", "subscription.updated"},
      s \in SubIds, d \in PeriodEnds(t)}
  \cup {[event |-> "subscription.charged", sub |-> s, pay |-> p, end |-> d,
          card |-> FALSE] :
      s \in SubIds, p \in PayIds, d \in PeriodEnds(t)}
  \cup {[event |-> e, sub |-> s, pay |-> NoId, end |-> NoDate, card |-> FALSE] :
      e \in {"subscription.completed", "subscription.cancelled", "subscription.paused",
             "subscription.halted", "subscription.pending"}, s \in SubIds}
  \cup {[event |-> "invoice.paid", sub |-> NoId, pay |-> NoId, end |-> NoDate,
          card |-> FALSE]}

\* One webhook delivery: the gateway posts (event, payload) with a signature
\* header; faults are the persistence calls that can fail during it.
WebhookWith(faults, signatures) ==
  /\ nreq < MaxReqs
  /\ \E data \in Payloads(now), signature \in signatures, fault \in faults :
       LET r == handleWebhook(CurrentDB, data.event, data.sub, data.pay, data.end,
                                data.card, now, fault) IN
       /\ Commit(r)
       /\ req' = [NoReq EXCEPT !.op = "webhook", !.event = data.event, !.sub = data.sub,
                               !.pay = data.pay, !.end = data.end, !.card = data.card,
                               !.sigValid = verifyWebhookSignature("body", signature),
                               !.fault = fault, !.faulted = r.faulted,
                               !.result = r.result]
  /\ nreq' = nreq + 1
  /\ UNCHANGED <<now, plans, callers, deliveries>>

\* a delivery while the database answers every call
Webhook == WebhookWith({"none"}, {"body", "forged"})

Next == Subscribe \/ Cancel \/ Webhook

Spec == Init /\ [][Next]_vars

\* ------------------------------------------------------ usage counters
\* variant: a resource that has reached its limit is still within it
checkUsageLimit_inclusive(S, id, resourceType) ==
  IF resourceType \notin DOMAIN S[id].usage
    THEN [allowed |-> FALSE, reason |-> "Resource type not found"]
  ELSE LET resource == S[id].usage[resourceType] IN
  IF resource.limit = Unlimited THEN [allowed |-> TRUE, reason |-> "Unlimited"]
  ELSE IF resource.current <= resource.limit THEN [allowed |-> TRUE, reason |-> "Within limit"]
  ELSE [allowed |-> FALSE, reason |-> "Usage limit exceeded",
        current |-> resource.current, limit |-> resource.limit]
\* Subscription.checkUsageLimit (the subscription exists)
checkUsageLimit(S, id, resourceType) ==
  IF resourceType \notin DOMAIN S[id].usage
    THEN [allowed |-> FALSE, reason |-> "Resource type not found"]
  ELSE LET resource == S[id].usage[resourceType] IN
  IF resource.limit = Unlimited THEN [allowed |-> TRUE, reason |-> "Unlimited"]
  ELSE IF resource.current < resource.limit THEN [allowed |-> TRUE, reason |-> "Within limit"]
  ELSE [allowed |-> FALSE, reason |-> "Usage limit exceeded",
        current |-> resource.current, limit |-> resource.limit]

\* Subscription.updateUsage, first half: findById, then current += increment
\* on the document in memory
updateUsageRead(S, id, resourceType, increment) ==
  S[id].usage[resourceType].current + increment

\* Subscription.updateUsage, second half: save() writes the modified path
updateUsageSave(S, id, resourceType, value) ==
  [S EXCEPT ![id].usage[resourceType].current = value]

Callers == 1..MaxCallers
IdleCaller == [pc |-> "idle", resource |-> "none", increment |-> 0, current |-> 0,
               allowed |-> [r \in ResourceTypes |-> 0],
               result |-> [allowed |-> FALSE, reason |-> "none"]]

\* One subscription, as the controller creates it, and idle callers.
InitUsage ==
  /\ now = 0
  /\ plans = Plans
  /\ \E planId \in PlanIds :
       subs = Subscription_createSubscription(
                <<>>, 1, subscriptionData("u1", planId, Plans[planId], 0)).subs
  /\ users = [u \in Users |-> [subscriptionStatus |-> "none", subscriptionExpiry |-> NoDate,
                               razorpayCustomerId |-> u = "u1"]]
  /\ payments = <<>>
  /\ notifications = <<>>
  /\ req = NoReq
  /\ nreq = 0
  /\ callers = [c \in Callers |-> IdleCaller]
  /\ deliveries = <<>>

UsageFrame == UNCHANGED <<now, plans, users, payments, notifications, req, deliveries>>

\* A caller starts the reserve protocol of the guide: checkUsageLimit, then
\* updateUsage(amount) if allowed.
CallReserve(c, amounts) ==
  /\ nreq < MaxCalls
  /\ callers[c].pc = "idle"
  /\ \E r \in ResourceTypes, a \in amounts :
       callers' = [callers EXCEPT ![c].pc = "check", ![c].resource = r, ![c].increment = a]
  /\ nreq' = nreq + 1
  /\ UNCHANGED subs /\ UsageFrame

\* A caller releases usage: updateUsage with a negative increment, no check.
CallRelease(c) ==
  /\ nreq < MaxCalls
  /\ callers[c].pc = "idle"
  /\ \E r \in ResourceTypes, a \in 1..MaxAmount :
       callers' = [callers EXCEPT ![c].pc = "read", ![c].resource = r, ![c].increment = -a]
  /\ nreq' = nreq + 1
  /\ UNCHANGED subs /\ UsageFrame

CheckUsageLimit(c) ==
  /\ callers[c].pc = "check"
  /\ LET res == checkUsageLimit(subs, 1, callers[c].resource) IN
     callers' = [callers EXCEPT ![c] =
                   IF res.allowed THEN [@ EXCEPT !.result = res, !.pc = "read"]
                   ELSE [IdleCaller EXCEPT !.result = res, !.allowed = callers[c].allowed]]
  /\ UNCHANGED <<subs, nreq>> /\ UsageFrame

UpdateUsageRead(c) ==
  /\ callers[c].pc = "read"
  /\ callers' = [callers EXCEPT
       ![c].current = updateUsageRead(subs, 1, callers[c].resource, callers[c].increment),
       ![c].pc = "save"]
  /\ UNCHANGED <<subs, nreq>> /\ UsageFrame

UpdateUsageSave(c) ==
  /\ callers[c].pc = "save"
  /\ subs' = updateUsageSave(subs, 1, callers[c].resource, callers[c].current)
  /\ callers' = [callers EXCEPT ![c] =
                   [IdleCaller EXCEPT !.result = callers[c].result,
                                      !.allowed = IF callers[c].increment > 0
                                                    THEN [callers[c].allowed EXCEPT
                                                            ![callers[c].resource] = @ + 1]
                                                    ELSE callers[c].allowed]]
  /\ UNCHANGED nreq /\ UsageFrame

\* Concurrent callers, each reserving one unit at a time.
Reserve         == \E c \in Callers : CallReserve(c, {1})
ReserveCheck    == \E c \in Callers : CheckUsageLimit(c)
ReserveRead     == \E c \in Callers : UpdateUsageRead(c)
ReserveSave     == \E c \in Callers : UpdateUsageSave(c)
NextReserve     == Reserve \/ ReserveCheck \/ ReserveRead \/ ReserveSave
SpecReserve     == InitUsage /\ [][NextReserve]_vars

\* One caller at a time: each call runs to completion before the next starts.
SeqReserve      == CallReserve(1, 1..MaxAmount)
SeqRelease      == CallRelease(1)
SeqCheck        == CheckUsageLimit(1)
SeqRead         == UpdateUsageRead(1)
SeqSave         == UpdateUsageSave(1)
NextUsage       == SeqReserve \/ SeqRelease \/ SeqCheck \/ SeqRead \/ SeqSave
SpecUsage       == InitUsage /\ [][NextUsage]_vars

\* A caller calls Subscription.updateUsage(subscriptionId, resource, +1).
CallIncrement(c) ==
  /\ nreq < MaxCalls
  /\ callers[c].pc = "idle"
  /\ \E r \in ResourceTypes :
       callers' = [callers EXCEPT ![c].pc = "read", ![c].resource = r, ![c].increment = 1]
  /\ nreq' = nreq + 1
  /\ UNCHANGED subs /\ UsageFrame

\* Concurrent callers of updateUsage(+1).
Increment       == \E c \in Callers : CallIncrement(c)
NextIncrement   == Increment \/ ReserveRead \/ ReserveSave
SpecIncrement   == InitUsage /\ [][NextIncrement]_vars

\* One caller at a time, each reserving one unit.
ReserveOne      == CallReserve(1, {1})
NextSequential  == ReserveOne \/ SeqCheck \/ SeqRead \/ SeqSave
SpecSequential  == InitUsage /\ [][NextSequential]_vars

\* ------------------------------- concurrent subscription.charged deliveries
\* The gateway delivers one subscription.charged event (req) several times;
\* the deliveries run handleSubscriptionCharged concurrently, one awaited call
\* per step.
Deliveries == 1..MaxDeliveries

InitCharged ==
  /\ now = 0
  /\ plans = Plans
  /\ \E planId \in PlanIds :
       subs = Subscription_createSubscription(
                <<>>, 1, subscriptionData("u1", planId, Plans[planId], 0)).subs
  /\ users = [u \in Users |-> [subscriptionStatus |-> "none", subscriptionExpiry |-> NoDate,
                               razorpayCustomerId |-> u = "u1"]]
  /\ payments = <<>>
  /\ notifications = <<>>
  /\ \E s \in SubIds, p \in PayIds, d \in PeriodEnds(0) :
       req = [NoReq EXCEPT !.op = "webhook", !.event = "subscription.charged",
                           !.sub = s, !.pay = p, !.end = d]
  /\ nreq = 0
  /\ callers = <<>>
  /\ deliveries = [d \in Deliveries |-> [pc |-> "start", existingPayment |-> FALSE,
                                         result |-> "none"]]

ChargedFrame == UNCHANGED <<now, plans, req, nreq, callers>>

\* Subscription.findOne({ razorpaySubscriptionId })
ChargedFindRecord ==
  \E d \in Deliveries :
    /\ deliveries[d].pc = "start"
    /\ deliveries' = [deliveries EXCEPT ![d] =
                        IF req.sub \in DOMAIN subs
                          THEN [@ EXCEPT !.pc = "save"]
                          ELSE [@ EXCEPT !.pc = "done", !.result = "ok"]]
    /\ UNCHANGED <<subs, users, payments, notifications>> /\ ChargedFrame

\* subscriptionRecord.save()
ChargedSaveRecord ==
  \E d \in Deliveries :
    /\ deliveries[d].pc = "save"
    /\ LET r == chargedSaveRecord(subs, req.sub, req.end) IN
       /\ subs' = r.subs
       /\ deliveries' = [deliveries EXCEPT ![d] =
                           IF r.ok THEN [@ EXCEPT !.pc = "user"]
                           ELSE [@ EXCEPT !.pc = "done", !.result = r.err]]
    /\ UNCHANGED <<users, payments, notifications>> /\ ChargedFrame

\* User.updateSubscriptionStatus(user, 'active', current_end)
ChargedUpdateUser ==
  \E d \in Deliveries :
    /\ deliveries[d].pc = "user"
    /\ LET r == User_updateSubscriptionStatus(users, subs[req.sub].user, "active", req.end) IN
       /\ users' = r.users
       /\ deliveries' = [deliveries EXCEPT ![d] =
                           IF r.ok THEN [@ EXCEPT !.pc = "findPayment"]
                           ELSE [@ EXCEPT !.pc = "done", !.result = r.err]]
    /\ UNCHANGED <<subs, payments, notifications>> /\ ChargedFrame

\* const existingPayment = await Payment.findOne({ razorpayPaymentId })
ChargedFindPayment ==
  \E d \in Deliveries :
    /\ deliveries[d].pc = "findPayment"
    /\ deliveries' = [deliveries EXCEPT ![d].existingPayment = findPayment(payments, req.pay) # {},
                                        ![d].pc = "createPayment"]
    /\ UNCHANGED <<subs, users, payments, notifications>> /\ ChargedFrame

\* if (!existingPayment) await Payment.createPayment(...)
ChargedCreatePayment ==
  \E d \in Deliveries :
    /\ deliveries[d].pc = "createPayment"
    /\ LET r == IF deliveries[d].existingPayment
                  THEN [ok |-> TRUE, err |-> "none", payments |-> payments]
                  ELSE Payment_createPayment(payments, chargedPaymentRow(subs, req.sub, req.pay)) IN
       /\ payments' = r.payments
       /\ deliveries' = [deliveries EXCEPT ![d] =
                           IF r.ok THEN [@ EXCEPT !.pc = "notify"]
                           ELSE [@ EXCEPT !.pc = "done", !.result = r.err]]
    /\ UNCHANGED <<subs, users, notifications>> /\ ChargedFrame

\* Notification.createNotification(...)
ChargedNotify ==
  \E d \in Deliveries :
    /\ deliveries[d].pc = "notify"
    /\ LET r == Notification_createNotification(
                  notifications, ChargedNotification(CurrentDB, req.sub, req.pay)) IN
       /\ notifications' = r.notifications
       /\ deliveries' = [deliveries EXCEPT ![d].pc = "done",
                                           ![d].result = IF r.ok THEN "ok" ELSE NotificationError]
    /\ UNCHANGED <<subs, users, payments>> /\ ChargedFrame

NextCharged == ChargedFindRecord \/ ChargedSaveRecord \/ ChargedUpdateUser
               \/ ChargedFindPayment \/ ChargedCreatePayment \/ ChargedNotify
SpecCharged == InitCharged /\ [][NextCharged]_vars

\* --------------------------- lifecycle requests while usage counters move
\* Subscription.updateUsage run to completion, no other caller in between
Subscription_updateUsage(S, id, resourceType, increment) ==
  updateUsageSave(S, id, resourceType, updateUsageRead(S, id, resourceType, increment))

\* the resource the application meters in SpecLifecycle
MeteredResources == {"projects"}

UseResource ==
  /\ nreq < MaxLifecycle
  /\ \E id \in DOMAIN subs, r \in MeteredResources, a \in {1, -1} :
       /\ subs' = Subscription_updateUsage(subs, id, r, a)
       /\ req' = [NoReq EXCEPT !.op = "usage", !.user = subs[id].user, !.sub = id,
                               !.result = "ok"]
  /\ nreq' = nreq + 1
  /\ UNCHANGED <<now, plans, users, payments, notifications, callers, deliveries>>

LifecycleCancel  == nreq < MaxLifecycle /\ Cancel
LifecycleWebhook == nreq < MaxLifecycle /\ Webhook
NextLifecycle == UseResource \/ LifecycleCancel \/ LifecycleWebhook
SpecLifecycle == InitUsage /\ [][NextLifecycle]_vars

\* ------------------------------------------------------- plan management
\* SubscriptionPlan.updatePlan: Object.assign(plan, updateData); plan.save()
SubscriptionPlan_updatePlan(PL, planId, updateData) ==
  IF planId \notin DOMAIN PL
    THEN [ok |-> FALSE, err |-> "NotFound", plans |-> PL]
  ELSE IF /\ "razorpayPlanId" \in DOMAIN updateData
          /\ updateData.razorpayPlanId # PL[planId].razorpayPlanId
          /\ \E q \in DOMAIN PL : PL[q].razorpayPlanId = updateData.razorpayPlanId
    THEN [ok |-> FALSE, err |-> "BadRequest", plans |-> PL]
  ELSE [ok |-> TRUE, err |-> "none",
        plans |-> [PL EXCEPT ![planId] =
                     [f \in DOMAIN @ |-> IF f \in DOMAIN updateData THEN updateData[f]
                                          ELSE @[f]]]]

\* request bodies of PUT /plans/:planId
PlanUpdates ==
  {[price |-> 20],
   [max |-> [r \in ResourceTypes |-> 5]],
   [unlimited |-> [r \in ResourceTypes |-> TRUE]],
   [features |-> [aiEstimates |-> TRUE], trialEnabled |-> FALSE],
   [razorpayPlanId |-> "plan_pro"]}

\* controller updatePlan
UpdatePlan ==
  /\ nreq < MaxReqs
  /\ \E planId \in PlanIds \cup {NewPlanId, "missing"}, updateData \in PlanUpdates :
       LET r == SubscriptionPlan_updatePlan(plans, planId, updateData) IN
       /\ plans' = r.plans
       /\ req' = [NoReq EXCEPT !.op = "updatePlan",
                               !.result = IF r.ok THEN "ok" ELSE r.err]
  /\ nreq' = nreq + 1
  /\ UNCHANGED <<now, subs, users, payments, notifications, callers, deliveries>>

\* validate(subscriptionValidation.createPlan): of the fields modelled, the
\* Joi schema constrains only price.amount (min 0)
validateCreatePlan(body) == body.price >= 0

\* request bodies of POST /plans: a price and the maximum of one quota
PlanBodies == {[price |-> p, quota |-> m] : p \in {-1, 10}, m \in {-1, 2}}

\* the plan document a body and the gateway's plan id make; paths the body
\* leaves out take the schema defaults
planData(body, razorpayPlanId) ==
  [billingCycle |-> "monthly", trialEnabled |-> FALSE, trialDays |-> 14,
   price |-> body.price, razorpayPlanId |-> razorpayPlanId,
   features |-> [aiEstimates |-> FALSE],
   max |-> [r \in ResourceTypes |-> IF r = "projects" THEN body.quota ELSE 1],
   unlimited |-> [r \in ResourceTypes |-> FALSE]]

\* SubscriptionPlan.createPlan: the uniqueness check on razorpayPlanId, then
\* this.create(planData) under the schema (price.amount has min 0)
SubscriptionPlan_createPlan(PL, id, data) ==
  IF \E q \in DOMAIN PL : PL[q].razorpayPlanId = data.razorpayPlanId
    THEN [ok |-> FALSE, err |-> "BadRequest", plans |-> PL]
  ELSE IF data.price < 0
    THEN [ok |-> FALSE, err |-> "ValidationError", plans |-> PL]
  ELSE [ok |-> TRUE, err |-> "none", plans |-> (id :> data) @@ PL]

\* controller createPlan behind its validation middleware; gwId is the plan
\* id razorpayService.createPlan returns ("fails": the call throws)
createPlan(PL, id, body, gwId) ==
  IF ~validateCreatePlan(body) THEN [ok |-> FALSE, err |-> "ValidationError", plans |-> PL]
  ELSE IF gwId = "fails" THEN [ok |-> FALSE, err |-> "GatewayError", plans |-> PL]
  ELSE SubscriptionPlan_createPlan(PL, id, planData(body, gwId))

CreatePlan ==
  /\ nreq < MaxReqs
  /\ NewPlanId \notin DOMAIN plans
  /\ \E body \in PlanBodies, gwId \in {"fails", "plan_custom", "plan_basic"} :
       LET r == createPlan(plans, NewPlanId, body, gwId) IN
       /\ plans' = r.plans
       /\ req' = [NoReq EXCEPT !.op = "createPlan", !.plan = NewPlanId, !.body = body,
                               !.gw = gwId, !.result = IF r.ok THEN "ok" ELSE r.err]
  /\ nreq' = nreq + 1
  /\ UNCHANGED <<now, subs, users, payments, notifications, callers, deliveries>>

\* variant: only active subscriptions count as users of the plan
SubscriptionPlan_deletePlan_activeOnly(PL, S, planId) ==
  IF planId \notin DOMAIN PL
    THEN [ok |-> FALSE, err |-> "NotFound", plans |-> PL]
  ELSE IF \E s \in DOMAIN S : S[s].plan = planId /\ S[s].status = "active"
    THEN [ok |-> FALSE, err |-> "BadRequest", plans |-> PL]
  ELSE [ok |-> TRUE, err |-> "none", plans |-> [q \in DOMAIN PL \ {planId} |-> PL[q]]]
\* SubscriptionPlan.deletePlan
SubscriptionPlan_deletePlan(PL, S, planId) ==
  IF planId \notin DOMAIN PL
    THEN [ok |-> FALSE, err |-> "NotFound", plans |-> PL]
  ELSE IF \E s \in DOMAIN S : S[s].plan = planId /\ S[s].status \in {"active", "trialing"}
    THEN [ok |-> FALSE, err |-> "BadRequest", plans |-> PL]
  ELSE [ok |-> TRUE, err |-> "none", plans |-> [q \in DOMAIN PL \ {planId} |-> PL[q]]]

\* controller deletePlan
DeletePlan ==
  /\ nreq < MaxReqs
  /\ \E planId \in PlanIds \cup {NewPlanId, "missing"} :
       LET r == SubscriptionPlan_deletePlan(plans, subs, planId) IN
       /\ plans' = r.plans
       /\ req' = [NoReq EXCEPT !.op = "deletePlan", !.plan = planId,
                               !.result = IF r.ok THEN "ok" ELSE r.err]
  /\ nreq' = nreq + 1
  /\ UNCHANGED <<now, subs, users, payments, notifications, callers, deliveries>>

NextPlans == Subscribe \/ UpdatePlan \/ Cancel \/ CreatePlan \/ DeletePlan
SpecPlans == Init /\ [][NextPlans]_vars

\* --------------------------------------------------------------- payments
\* variant: the refund total is not compared with the payment's amount
Payment_processRefund_unchecked(P, i, refundAmount) ==
  IF i \notin 1..Len(P) THEN [ok |-> FALSE, err |-> "NotFound", payments |-> P]
  ELSE IF P[i].status # "captured" THEN [ok |-> FALSE, err |-> "BadRequest", payments |-> P]
  ELSE LET totalRefundAmount == P[i].refund + refundAmount IN
       [ok |-> TRUE, err |-> "none",
        payments |-> [P EXCEPT ![i].refund = totalRefundAmount,
                               ![i].status = IF totalRefundAmount = P[i].amount
                                               THEN "refunded" ELSE "partially_refunded"]]
\* Payment.processRefund; i is the _id of the payment (its row), NoId when
\* there is no such payment
Payment_processRefund(P, i, refundAmount) ==
  IF i \notin 1..Len(P) THEN [ok |-> FALSE, err |-> "NotFound", payments |-> P]
  ELSE IF P[i].status # "captured" THEN [ok |-> FALSE, err |-> "BadRequest", payments |-> P]
  ELSE LET totalRefundAmount == P[i].refund + refundAmount IN
       IF totalRefundAmount > P[i].amount
         THEN [ok |-> FALSE, err |-> "BadRequest", payments |-> P]
       ELSE [ok |-> TRUE, err |-> "none",
             payments |-> [P EXCEPT ![i].refund = totalRefundAmount,
                                    ![i].status = IF totalRefundAmount = P[i].amount
                                                    THEN "refunded" ELSE "partially_refunded"]]

\* razorpayService.verifyPaymentSignature: the hex HMAC of orderId|paymentId
\* under the key secret equals the signature.  A signature is modelled by the
\* pair it was computed over (<<NoId, NoId>>: computed over nothing the
\* gateway issued).
verifyPaymentSignature(orderId, paymentId, signature) == signature = <<orderId, paymentId>>

Signatures == (OrderIds \X PayIds) \cup {<<NoId, NoId>>}

\* what razorpayService.getPayment can return ("error": it throws)
GatewayPayments ==
  {[status |-> st, card |-> c] : st \in {"captured", "authorized"}, c \in BOOLEAN}
  \cup {[status |-> "error", card |-> FALSE]}

\* variant: the signature is not looked at
verifyPayment_unchecked(D, u, orderId, paymentId, signature, razorpayPayment) ==
  IF razorpayPayment.status = "error" THEN Done(D, "GatewayError") ELSE
  IF razorpayPayment.card THEN Done(D, "ValidationError") ELSE
  LET paymentData == [razorpayPaymentId |-> paymentId, user |-> u, subscription |-> NoId,
                      status |-> IF razorpayPayment.status = "captured"
                                   THEN "captured" ELSE "failed",
                      amount |-> ChargeAmount, refund |-> 0]
      r == Payment_createPayment(D.payments, paymentData) IN
  IF ~r.ok THEN Done(D, r.err)
  ELSE Done([D EXCEPT !.payments = r.payments], "ok")
\* controller verifyPayment.  A card object in the payment data fails to
\* cast to the String path paymentMethod.card, so create() rejects it.
verifyPayment(D, u, orderId, paymentId, signature, razorpayPayment) ==
  IF ~verifyPaymentSignature(orderId, paymentId, signature) THEN Done(D, "BadRequest") ELSE
  IF razorpayPayment.status = "error" THEN Done(D, "GatewayError") ELSE
  IF razorpayPayment.card THEN Done(D, "ValidationError") ELSE
  LET paymentData == [razorpayPaymentId |-> paymentId, user |-> u, subscription |-> NoId,
                      status |-> IF razorpayPayment.status = "captured"
                                   THEN "captured" ELSE "failed",
                      amount |-> ChargeAmount, refund |-> 0]
      r == Payment_createPayment(D.payments, paymentData) IN
  IF ~r.ok THEN Done(D, r.err)
  ELSE Done([D EXCEPT !.payments = r.payments], "ok")

VerifyPayment ==
  /\ nreq < MaxPaymentReqs
  /\ \E u \in Users, orderId \in OrderIds, paymentId \in PayIds, signature \in Signatures,
        razorpayPayment \in GatewayPayments :
       LET r == verifyPayment(CurrentDB, u, orderId, paymentId, signature, razorpayPayment) IN
       /\ Commit(r)
       /\ req' = [NoReq EXCEPT
                    !.op = "verifyPayment", !.user = u, !.pay = paymentId,
                    !.sigValid = verifyPaymentSignature(orderId, paymentId, signature),
                    !.gw = IF verifyPaymentSignature(orderId, paymentId, signature)
                             THEN (IF razorpayPayment.status = "error" THEN "failed" ELSE "ok")
                             ELSE "none",
                    !.card = razorpayPayment.card,
                    !.result = r.result]
  /\ nreq' = nreq + 1
  /\ UNCHANGED <<now, plans, callers, deliveries>>

\* a refund of the payment with gateway id pid, of 1..ChargeAmount + 1 rupees
Refund ==
  /\ nreq < MaxPaymentReqs
  /\ \E pid \in PayIds, refundAmount \in 1..(ChargeAmount + 1) :
       LET found == findPayment(payments, pid)
           i == IF found = {} THEN NoId ELSE CHOOSE j \in found : TRUE
           r == Payment_processRefund(payments, i, refundAmount) IN
       /\ payments' = r.payments
       /\ req' = [NoReq EXCEPT !.op = "refund", !.pay = pid, !.amount = refundAmount,
                               !.result = IF r.ok THEN "ok" ELSE r.err]
  /\ nreq' = nreq + 1
  /\ UNCHANGED <<now, plans, subs, users, notifications, callers, deliveries>>

PaymentWebhook ==
  /\ nreq < MaxPaymentReqs
  /\ Webhook
  /\ req'.event \in {"payment.captured", "payment.failed", "subscription.charged"}

NextPayments == VerifyPayment \/ Refund \/ PaymentWebhook
SpecPayments == InitUsage /\ [][NextPayments]_vars

\* ------------------------------------------- deliveries with a failing call
FaultyWebhook == nreq < MaxFaulty /\ WebhookWith(FaultSites, {"body"})
NextFaults == FaultyWebhook
SpecFaults == InitUsage /\ [][NextFaults]_vars

\* ------------------------------------------------------------ entitlement
\* controller getUsageStats: the responses it can give user u.  findOne
\* returns one of the matching documents; without a match the controller
\* throws NOT_FOUND.
getUsageStats(S, u) ==
  LET found == getUserActiveSubscription(S, u) IN
  IF found = {} THEN {[result |-> "NotFound", sub |-> NoId]}
  ELSE {[result |-> "ok", sub |-> s] : s \in found}

GetUsageStats ==
  /\ nreq < MaxLifecycle
  /\ \E u \in Users : \E r \in getUsageStats(subs, u) :
       req' = [NoReq EXCEPT !.op = "usageStats", !.user = u, !.sub = r.sub,
                            !.result = r.result]
  /\ nreq' = nreq + 1
  /\ UNCHANGED <<now, plans, subs, users, payments, notifications, callers, deliveries>>

\* days the clock can advance in one step: past a month, past a year
TickDays == {31, 366}

Tick ==
  /\ nreq < MaxLifecycle
  /\ \E d \in TickDays : now' = now + d
  /\ req' = [NoReq EXCEPT !.op = "tick"]
  /\ nreq' = nreq + 1
  /\ UNCHANGED <<plans, subs, users, payments, notifications, callers, deliveries>>

EntitlementCharged ==
  nreq < MaxLifecycle /\ Webhook /\ req'.event = "subscription.charged"

NextEntitlement == Tick \/ GetUsageStats \/ LifecycleCancel \/ EntitlementCharged
SpecEntitlement == InitUsage /\ [][NextEntitlement]_vars

\* ================================================================ claims
\* The edges of the lifecycle state machine.
AllowedEdges ==
  {<<"trialing", "active">>, <<"active", "active">>, <<"active", "past_due">>,
   <<"past_due", "active">>, <<"active", "paused">>, <<"past_due", "paused">>,
   <<"paused", "active">>, <<"trialing", "cancelled">>, <<"active", "cancelled">>,
   <<"past_due", "cancelled">>, <<"paused", "cancelled">>, <<"active", "completed">>}

RECURSIVE SumAllowed(_, _)
SumAllowed(n, r) == IF n = 0 THEN 0 ELSE callers[n].allowed[r] + SumAllowed(n - 1, r)
\* reservations of resource r that were allowed and applied, over all callers
TotalAllowed(r) == SumAllowed(MaxCallers, r)

\* the request of this step was handled (the step is a request, not a stutter)
Handled == nreq' = nreq + 1

\* C1: with limit L (not unlimited) and concurrent callers of the reserve
\* protocol starting from current = 0, at most L reservations succeed and
\* usage.current never exceeds L.
C1_QuotaMonotonicity ==
  \A r \in ResourceTypes :
    LET u == subs[1].usage[r] IN
    u.limit # Unlimited => (u.current <= u.limit /\ TotalAllowed(r) <= u.limit)

\* C2: each user has at most one Subscription whose status is active or
\* trialing.
C2_OneActiveSubscription ==
  \A u \in Users : Cardinality(getUserActiveSubscription(subs, u)) <= 1

\* C3: every change of a Subscription's status follows an allowed edge.
C3_OnlyAllowedEdges ==
  [][\A s \in DOMAIN subs :
       subs'[s].status # subs[s].status =>
         <<subs[s].status, subs'[s].status>> \in AllowedEdges]_vars

\* the status a request asks the subscription to move to ("none": the
\* request is not a transition request)
TargetStatus(r) ==
  CASE r.op = "cancel"                                         -> "cancelled"
    [] r.op = "webhook" /\ r.event = "subscription.activated"  -> "active"
    [] r.op = "webhook" /\ r.event = "subscription.resumed"    -> "active"
    [] r.op = "webhook" /\ r.event = "subscription.completed"  -> "completed"
    [] r.op = "webhook" /\ r.event = "subscription.cancelled"  -> "cancelled"
    [] r.op = "webhook" /\ r.event = "subscription.paused"     -> "paused"
    [] r.op = "webhook" /\ r.event = "subscription.halted"     -> "past_due"
    [] r.op = "webhook" /\ r.event = "subscription.pending"    -> "trialing"
    [] OTHER                                                   -> "none"

\* the request handled in this step asks subscription req'.sub, which exists,
\* for a status change that is not an allowed edge (a cancel request comes
\* from the owner)
DisallowedRequest ==
  /\ Handled
  /\ TargetStatus(req') # "none"
  /\ req'.sub \in DOMAIN subs
  /\ req'.op = "cancel" => req'.user = subs[req'.sub].user
  /\ subs[req'.sub].status # TargetStatus(req')
  /\ <<subs[req'.sub].status, TargetStatus(req')>> \notin AllowedEdges

\* C4: a requested transition that is not an allowed edge fails and leaves
\* the Subscription and the User's subscription fields unchanged.
C4_DisallowedEdgeNoMutation ==
  [][DisallowedRequest => (req'.result # "ok" /\ subs' = subs /\ users' = users)]_vars

\* rows of the Payment collection with razorpayPaymentId = pid
PaymentRows(pid) == Cardinality(findPayment(payments, pid))

\* the request handled in this step is a subscription.charged delivery
\* identical to the request handled just before it, for a known subscription,
\* and the earlier delivery was applied (its Payment row exists)
ChargedReplay ==
  /\ Handled
  /\ req'.op = "webhook" /\ req'.event = "subscription.charged"
  /\ req.op = "webhook" /\ req.event = "subscription.charged"
  /\ req'.sub = req.sub /\ req'.pay = req.pay /\ req'.end = req.end
  /\ req'.sub \in DOMAIN subs
  /\ PaymentRows(req.pay) = 1

\* C5: replaying an identical subscription.charged webhook leaves the
\* Subscription unchanged and exactly one Payment row for the payment id.
C5_ChargedReplayIdempotent ==
  [][ChargedReplay => (subs' = subs /\ payments' = payments)]_vars

AllDelivered == \A d \in Deliveries : deliveries[d].pc = "done"

\* C6: after concurrent deliveries of one subscription.charged event for a
\* known subscription, exactly one Payment row has the payment id and no
\* delivery failed on the uniqueness constraint.
C6_ConcurrentChargedInsertOrSkip ==
  (AllDelivered /\ req.sub \in DOMAIN subs) =>
     /\ PaymentRows(req.pay) = 1
     /\ \A d \in Deliveries : deliveries[d].result # "DuplicateKey"

\* C7: a webhook whose signature does not match its payload changes no
\* Subscription, Payment, User or Notification state.
C7_ForgedWebhookNoMutation ==
  [][(Handled /\ req'.op = "webhook" /\ ~req'.sigValid) => UNCHANGED db]_vars

\* C8: under sequential reservations of any amount >= 1, usage.current never
\* exceeds a limit that is not unlimited.
C8_ReserveWithinLimit ==
  \A r \in ResourceTypes :
    subs[1].usage[r].limit # Unlimited => subs[1].usage[r].current <= subs[1].usage[r].limit

\* C9: releasing usage never drives usage.current below 0.
C9_ReleaseFlooredAtZero ==
  \A r \in ResourceTypes : subs[1].usage[r].current >= 0

\* C10: every executed lifecycle transition appends exactly one history
\* entry.
C10_OneHistoryEntryPerTransition ==
  [][\A s \in DOMAIN subs :
       subs'[s].status # subs[s].status =>
         Len(subs'[s].history) = Len(subs[s].history) + 1]_vars

\* the request handled in this step is a status webhook or a cancel request
\* that got as far as creating its notification, and the creation threw
NotificationFailed ==
  /\ Handled
  /\ req'.op \in {"webhook", "cancel"}
  /\ TargetStatus(req') # "none"
  /\ req'.result = NotificationError

\* C11: when creating the notification fails while a webhook event or a
\* cancel request is processed, the status transition is committed and the
\* operation still reports success.
C11_NotificationFailureTolerated ==
  [][NotificationFailed =>
       /\ subs'[req'.sub].status = TargetStatus(req')
       /\ req'.result = "ok"]_vars

\* the outcome "cancelled locally, gateway cancellation pending"
PartialCancel == "LocalCancelledRemotePending"
\* the cancel request handled in this step cancelled the local Subscription
LocalCancelled == subs'[req'.sub] # subs[req'.sub] /\ subs'[req'.sub].status = "cancelled"
\* the cancel request handled in this step cancelled the gateway subscription
RemoteCancelled == req'.gw = "ok"

\* C12: a cancel request that reaches the gateway reports success exactly
\* when both sides were cancelled, a failure when neither was, and the
\* distinct partial outcome whenever exactly one side was cancelled.
C12_CancelOutcomes ==
  [][(Handled /\ req'.op = "cancel" /\ req'.gw # "none") =>
       /\ (LocalCancelled /\ RemoteCancelled) => req'.result = "ok"
       /\ (~LocalCancelled /\ ~RemoteCancelled) => req'.result \notin {"ok", PartialCancel}
       /\ (LocalCancelled # RemoteCancelled) => req'.result = PartialCancel]_vars

\* the request handled in this step ends subscription req'.sub, which exists:
\* the owner's cancel request that the gateway accepted, or a
\* subscription.cancelled or subscription.completed webhook
EndingRequest ==
  /\ Handled
  /\ TargetStatus(req') \in {"cancelled", "completed"}
  /\ req'.sub \in DOMAIN subs
  /\ req'.op = "cancel" => req'.gw = "ok"

\* C13: in the step after a Subscription was cancelled or completed (cancel
\* API, subscription.cancelled or subscription.completed webhook), entitlement
\* resolution for its user no longer returns that subscription.
C13_EndedSubscriptionNotEntitled ==
  [][EndingRequest =>
       req'.sub \notin getUserActiveSubscription(subs', subs[req'.sub].user)]_vars

SubscriptionEvents == Events \ {"payment.captured", "payment.failed"}

\* the webhook handled in this step names a subscription (for a payment
\* event: a payment) that is not in the database
OrphanWebhook ==
  /\ Handled
  /\ req'.op = "webhook"
  /\ \/ req'.event \in SubscriptionEvents /\ req'.sub \notin DOMAIN subs
     \/ req'.event \in {"payment.captured", "payment.failed"}
          /\ findPayment(payments, req'.pay) = {}

\* C16: a webhook that references an unknown subscription id (or, for
\* payment.captured / payment.failed, an unknown payment id) is acknowledged
\* as success and changes no state.
C16_OrphanWebhookAcknowledged ==
  [][OrphanWebhook => (req'.result = "ok" /\ UNCHANGED db)]_vars

\* an orphan subscription.activated and an orphan payment event were handled
\* while a subscription existed
C16_Witness ==
  /\ req.op = "webhook" /\ req.result = "ok"
  /\ subs # <<>>
  /\ \/ req.event = "subscription.activated" /\ req.sub \notin DOMAIN subs
     \/ req.event = "payment.failed" /\ findPayment(payments, req.pay) = {}

\* C17: a webhook whose event type no handler is defined for is acknowledged
\* as success and changes no state.
C17_UnknownEventAcknowledged ==
  [][(Handled /\ req'.op = "webhook" /\ req'.event \notin Events) =>
       (req'.result = "ok" /\ UNCHANGED db)]_vars

\* an unhandled event type was delivered while a subscription existed
C17_Witness ==
  /\ req.op = "webhook" /\ req.event \notin Events /\ req.result = "ok"
  /\ subs # <<>>

\* the webhook handled in this step asks subscription req'.sub, which exists,
\* for the status it already has
SameStateEvent ==
  /\ Handled
  /\ req'.op = "webhook"
  /\ req'.sub \in DOMAIN subs
  /\ TargetStatus(req') = subs[req'.sub].status

\* C18: a status event whose target status is the Subscription's current
\* status leaves status, history and dates unchanged and is acknowledged as
\* success.
C18_SameStateEventNoOp ==
  [][SameStateEvent => (subs'[req'.sub] = subs[req'.sub] /\ req'.result = "ok")]_vars

\* notifications created for gateway payment pid
NotificationsOf(pid) == {i \in 1..Len(notifications) : notifications[i].payment = pid}

C20_CapturedUpserts ==
  [][(Handled /\ req'.op = "webhook" /\ req'.event = "payment.captured") =>
       /\ Cardinality(findPayment(payments', req'.pay)) = 1
       /\ \A i \in findPayment(payments', req'.pay) : payments'[i].status = "captured"]_vars

\* C14: every lifecycle request (a cancel request or a webhook: activate,
\* renew, halt, pause, resume, cancel, complete) leaves the usage counters of
\* every Subscription unchanged.
C14_TransitionsKeepUsage ==
  [][(Handled /\ req'.op \in {"cancel", "webhook"}) =>
       \A s \in DOMAIN subs : subs'[s].usage = subs[s].usage]_vars

\* a subscription with usage on its counters was cancelled
C14_Witness ==
  /\ req.op \in {"cancel", "webhook"}
  /\ req.sub \in DOMAIN subs
  /\ subs[req.sub].status = "cancelled"
  /\ subs[req.sub].usage["projects"].current > 0

\* what a Subscription copies from its plan
PlanSnapshot(doc) ==
  [price |-> doc.price, features |-> doc.features,
   limit |-> [r \in ResourceTypes |-> doc.usage[r].limit]]
\* the same values read from a plan
PlanValues(plan) ==
  [price |-> plan.price, features |-> plan.features,
   limit |-> [r \in ResourceTypes |-> IF plan.unlimited[r] THEN Unlimited ELSE plan.max[r]]]

\* C15: a Subscription's limits, features and price are the values its Plan
\* had when the user subscribed, and no later request (updatePlan included)
\* changes them.
C15_PlanSnapshot ==
  [][/\ \A s \in DOMAIN subs' \ DOMAIN subs :
          PlanSnapshot(subs'[s]) = PlanValues(plans[subs'[s].plan])
     /\ \A s \in DOMAIN subs : PlanSnapshot(subs'[s]) = PlanSnapshot(subs[s])]_vars

\* a plan was updated after a user subscribed to it, and the Subscription
\* still carries the values of the old plan
C15_Witness ==
  /\ req.op = "updatePlan" /\ req.result = "ok"
  /\ \E s \in DOMAIN subs :
       /\ subs[s].plan \in DOMAIN plans
       /\ PlanSnapshot(subs[s]) # PlanValues(plans[subs[s].plan])

\* C21: when a trialing Subscription receives subscription.activated, its
\* status becomes active and its nextBillingDate becomes the period end of
\* the payload.
C21_ActivatedSetsNextBillingDate ==
  [][(/\ Handled
      /\ req'.op = "webhook" /\ req'.event = "subscription.activated"
      /\ req'.sub \in DOMAIN subs
      /\ subs[req'.sub].status = "trialing") =>
       /\ subs'[req'.sub].status = "active"
       /\ subs'[req'.sub].nextBillingDate = req'.end]_vars

\* C22: when an active Subscription receives subscription.charged, its status
\* stays active and nextBillingDate and endDate both become the period end of
\* the payload.
C22_ChargedExtendsPeriod ==
  [][(/\ Handled
      /\ req'.op = "webhook" /\ req'.event = "subscription.charged"
      /\ req'.sub \in DOMAIN subs
      /\ subs[req'.sub].status = "active") =>
       /\ subs'[req'.sub].status = "active"
       /\ subs'[req'.sub].nextBillingDate = req'.end
       /\ subs'[req'.sub].endDate = req'.end]_vars

\* an active subscription was charged with a period end other than the one
\* it was created with
C22_Witness ==
  /\ req.op = "webhook" /\ req.event = "subscription.charged"
  /\ req.sub \in DOMAIN subs
  /\ subs[req.sub].status = "active"
  /\ subs[req.sub].endDate = req.end
  /\ req.end # subs[req.sub].startDate + CycleDays(subs[req.sub].billingCycle)

\* C23: a newly created Subscription is trialing if the Plan's trial is
\* enabled when the user subscribes, and active otherwise.
C23_InitialStatus ==
  [][\A s \in DOMAIN subs' \ DOMAIN subs :
       subs'[s].status = IF plans[subs'[s].plan].trialEnabled THEN "trialing" ELSE "active"]_vars

\* a user subscribed to the basic plan after its trial was switched off
C23_Witness ==
  /\ req.op = "subscribe"
  /\ \E s \in DOMAIN subs :
       /\ subs[s].plan = "basic" /\ subs[s].status = "active"
       /\ subs[s].history = <<"created">>

\* the deletePlan request of this step names a plan that an active or
\* trialing Subscription references
DeleteReferenced ==
  /\ Handled
  /\ req'.op = "deletePlan"
  /\ req'.plan \in DOMAIN plans
  /\ \E s \in DOMAIN subs : subs[s].plan = req'.plan /\ subs[s].status \in {"active", "trialing"}

\* the deletePlan request of this step names a plan that does not exist
DeleteMissing == Handled /\ req'.op = "deletePlan" /\ req'.plan \notin DOMAIN plans

C28_CreatePlanValidated ==
  [][(/\ Handled
      /\ req'.op = "createPlan"
      /\ \/ req'.body.price < 0
         \/ req'.body.quota < 0
         \/ \E q \in DOMAIN plans : plans[q].razorpayPlanId = req'.gw) =>
       (req'.result # "ok" /\ plans' = plans)]_vars

\* the subscriptions of user u that entitle the user at time t
Entitling(S, u, t) ==
  {s \in DOMAIN S : S[s].user = u /\ S[s].status \in {"active", "trialing"}
                    /\ t <= S[s].endDate}

\* C24: entitlement resolution answers with a Subscription only if it is
\* active or trialing and not past its endDate; for a user without such a
\* subscription it answers with the free-tier entitlement, not an error.
C24_EntitlementRespectsEndDate ==
  [][(Handled /\ req'.op = "usageStats") =>
       IF Entitling(subs, req'.user, now) = {}
         THEN req'.result = "FreeTier"
         ELSE req'.result = "ok" /\ req'.sub \in Entitling(subs, req'.user, now)]_vars

\* C25: a Payment's status only moves forward: a captured payment never
\* becomes pending or failed, a refunded or partially refunded payment never
\* becomes captured, pending or failed, and a fully refunded payment never
\* changes again.
C25_PaymentStatusMonotone ==
  [][\A i \in 1..Len(payments) :
       /\ payments[i].status = "captured" =>
            payments'[i].status \notin {"pending", "failed"}
       /\ payments[i].status \in {"refunded", "partially_refunded"} =>
            payments'[i].status \notin {"captured", "pending", "failed"}
       /\ payments[i].status = "refunded" => payments'[i] = payments[i]]_vars

\* the row of the payment the request of this step names (NoId: none)
RefundedRow ==
  LET found == findPayment(payments, req'.pay)
  IN IF found = {} THEN NoId ELSE CHOOSE j \in found : TRUE

C29_BadPaymentSignatureRejected ==
  [][(Handled /\ req'.op = "verifyPayment" /\ ~req'.sigValid) =>
       (req'.result # "ok" /\ req'.gw = "none" /\ UNCHANGED db)]_vars

\* a verifyPayment carrying the signature of another order was rejected
C29_Witness ==
  /\ req.op = "verifyPayment" /\ ~req.sigValid
  /\ req.result = "BadRequest"

\* C30: whenever a persistence call fails while a webhook event is handled,
\* handleWebhook ends in an error, never in a success acknowledgement.
C30_PersistenceFailurePropagates ==
  [][(Handled /\ req'.op = "webhook" /\ req'.faulted) => req'.result # "ok"]_vars

\* the save of the renewed period succeeded and a later call of the same
\* delivery failed
C30_Witness ==
  /\ req.op = "webhook" /\ req.event = "subscription.charged"
  /\ req.faulted /\ req.fault = "createPayment"
  /\ req.sub \in DOMAIN subs
  /\ subs[req.sub].endDate = req.end
  /\ payments = <<>>

\* C31: a sequential reservation of one unit is allowed exactly when
\* current < limit or the limit is unlimited; an allowed one raises current by
\* one, a denied one reports {current, limit} and leaves current alone, so a
\* limit of 2 admits two reservations and denies the third at {2, 2}.
C31_SequentialReservations ==
  [][/\ callers[1].pc = "check" =>
          LET u   == subs[1].usage[callers[1].resource]
              res == callers'[1].result IN
          /\ res.allowed <=> (u.current < u.limit \/ u.limit = Unlimited)
          /\ ~res.allowed => /\ res.current = u.current /\ res.limit = u.limit
                             /\ subs' = subs
                             /\ callers'[1].pc = "idle"
     /\ callers[1].pc = "save" =>
          LET r == callers[1].resource IN
          /\ subs'[1].usage[r].current = subs[1].usage[r].current + 1
          /\ subs[1].usage[r].limit # Unlimited =>
               subs'[1].usage[r].current <= subs[1].usage[r].limit
          /\ callers'[1].allowed[r] = callers[1].allowed[r] + 1]_vars

\* the third reservation of a project against a limit of 2 was denied
C31_Witness ==
  /\ nreq = 3
  /\ callers[1].pc = "idle"
  /\ callers[1].allowed["projects"] = 2
  /\ subs[1].usage["projects"].current = 2
  /\ subs[1].usage["projects"].limit = 2
  /\ ~callers[1].result.allowed
  /\ callers[1].result.reason = "Usage limit exceeded"
  /\ callers[1].result.current = 2 /\ callers[1].result.limit = 2

\* h is an initial segment of k
IsPrefix(h, k) == Len(h) <= Len(k) /\ SubSeq(k, 1, Len(h)) = h

\* C32: no operation deletes a Subscription, and after any operation the
\* previous history of every Subscription is a prefix of its new history.
C32_HistoryAppendOnly ==
  [][\A s \in DOMAIN subs :
       /\ s \in DOMAIN subs'
       /\ IsPrefix(subs[s].history, subs'[s].history)]_vars

\* a status webhook has extended a history that a cancel request had
\* already extended
C32_Witness ==
  /\ req.op = "webhook" /\ req.sub \in DOMAIN subs
  /\ Len(subs[req.sub].history) >= 4
  /\ subs[req.sub].history[2] = "cancelled"

\* C33: when concurrent callers have each finished updateUsage(+1) on a
\* resource with unlimited limit, usage.current is higher by exactly the
\* number of calls.
C33_AtomicUsageIncrements ==
  (\A c \in Callers : callers[c].pc = "idle") =>
    \A r \in ResourceTypes :
      subs[1].usage[r].limit = Unlimited => subs[1].usage[r].current = TotalAllowed(r)

\* C34: a further refund equal to the remaining balance of a partially
\* refunded Payment is accepted and makes the Payment refunded.
C34_PartialRefundCompletes ==
  [][(/\ Handled /\ req'.op = "refund"
      /\ RefundedRow # NoId
      /\ payments[RefundedRow].status = "partially_refunded"
      /\ req'.amount = payments[RefundedRow].amount - payments[RefundedRow].refund) =>
       /\ req'.result = "ok"
       /\ payments'[RefundedRow].status = "refunded"
       /\ payments'[RefundedRow].refund = payments[RefundedRow].amount]_vars

\* C36: the cancel API changes local state only after the gateway cancel
\* call has succeeded: when the gateway call fails, no Subscription changes
\* (status, cancelledAt, cancellation, history) and no notification is created.
C36_CancelAfterGatewaySuccess ==
  [][(Handled /\ req'.op = "cancel") =>
       /\ req'.gw = "failed" =>
            /\ subs' = subs
            /\ notifications' = notifications
            /\ req'.result # "ok"
       /\ subs' # subs => req'.gw = "ok"]_vars

\* the owner's cancel request for a live subscription failed at the gateway
C36_Witness ==
  /\ req.op = "cancel" /\ req.gw = "failed" /\ req.result = "GatewayError"
  /\ req.sub \in DOMAIN subs
  /\ subs[req.sub].user = req.user
  /\ subs[req.sub].status \in {"active", "trialing"}
  /\ subs[req.sub].cancelledAt = NoDate

\* C38: a cancel request by a user who does not own the subscription is
\* rejected as forbidden before the gateway cancel call is made and changes
\* no Subscription.
C38_CancelByOwnerOnly ==
  [][(/\ Handled /\ req'.op = "cancel"
      /\ req'.sub \in DOMAIN subs
      /\ subs[req'.sub].user # req'.user) =>
       /\ req'.result = "Forbidden"
       /\ req'.gw = "none"
       /\ subs' = subs]_vars

\* another user's cancel request for a live subscription was refused
C38_Witness ==
  /\ req.op = "cancel" /\ req.result = "Forbidden"
  /\ req.sub \in DOMAIN subs
  /\ subs[req.sub].user # req.user
  /\ subs[req.sub].status \in {"active", "trialing"}

\* C37: the User's mirrored subscriptionStatus agrees with the Subscription
\* records: a User marked active has a Subscription that is active or
\* trialing, so a User whose subscription was cancelled through the API, or
\* halted or paused by a webhook, is no longer marked active.
C37_UserMirrorsSubscription ==
  \A u \in Users :
    users[u].subscriptionStatus = "active" => getUserActiveSubscription(subs, u) # {}

\* the collections of InitUsage for a subscription to plan planId
InitialDB(planId) ==
  DB(Subscription_createSubscription(
       <<>>, 1, subscriptionData("u1", planId, Plans[planId], 0)).subs,
     [u \in Users |-> [subscriptionStatus |-> "none", subscriptionExpiry |-> NoDate,
                       razorpayCustomerId |-> u = "u1"]],
     <<>>, <<>>)

\* the first delivery of an event failed at a persistence call after some of
\* its writes, and this step is the redelivery of the same event in which no
\* persistence call fails
Redelivered ==
  /\ Handled /\ nreq = 1
  /\ req.op = "webhook" /\ req.faulted
  /\ <<subs, users, payments>> #
       <<InitialDB(subs[1].plan).subs, InitialDB(subs[1].plan).users, <<>>>>
  /\ req'.op = "webhook" /\ ~req'.faulted
  /\ req'.event = req.event /\ req'.sub = req.sub /\ req'.pay = req.pay
  /\ req'.end = req.end /\ req'.card = req.card

\* C35: after a webhook delivery that failed partway and a redelivery of the
\* same event that got through, the Subscription, User and Payment state is
\* the state a single failure-free application of the event produces.
C35_RedeliveryConverges ==
  [][Redelivered =>
       LET E == handleWebhook(InitialDB(subs[1].plan), req'.event, req'.sub, req'.pay,
                              req'.end, req'.card, now, "none").db IN
       /\ subs' = E.subs
       /\ users' = E.users
       /\ payments' = E.payments]_vars

====
